---- MODULE Spec2Model ----
(***************************************************************************)
(* KonaAI SSMS MCP server: the two connection managers (one pool handle    *)
(* per database target), the tool and resource handlers of the protocol    *)
(* front-end, and the database behind them.                                *)
(*                                                                         *)
(* JavaScript strings are sequences of one-character strings, so that      *)
(* trim, toLowerCase, startsWith, split and includes are computed the way  *)
(* the code computes them.  Every `await` of the code is a scheduling      *)
(* point: an action runs a handler from one await to the next.             *)
(***************************************************************************)
EXTENDS Integers, Sequences, FiniteSets, TLC

\* Bounds of the model.
NumCallers == 2    \* concurrent callers of the connection-manager API
MaxHandles == 2    \* pool handles one manager constructs in one behaviour
MaxTableRows == 2  \* rows a table holds

Targets == {"master", "datamgmt"}
Callers == 1..NumCallers

\* `private pool: sql.ConnectionPool | null = null`: the absent handle.
NoPool == 0

VARIABLES
  pool,       \* pool[t]: the handle held by target t's manager, or NoPool
  handles,    \* handles[t]: every ConnectionPool object t's manager built
  reachable,  \* reachable[t]: the database of t accepts connections now
  catalog,    \* catalog[t]: the objects of t's database
  table,      \* table[t]: the rows of the table of t's database
  proc,       \* proc[p]: the request or API call slot p is running / last ran
  everUsed,   \* targets on which connect/executeQuery/executeProcedure ran
  running     \* the server process is alive

vars == <<pool, handles, reachable, catalog, table, proc, everUsed, running>>

----------------------------------------------------------------------------
(* Strings                                                                 *)

Upper == <<"A","B","C","D","E","F","G","H","I","J","K","L","M",
           "N","O","P","Q","R","S","T","U","V","W","X","Y","Z">>
Lower == <<"a","b","c","d","e","f","g","h","i","j","k","l","m",
           "n","o","p","q","r","s","t","u","v","w","x","y","z">>

\* The white space String.prototype.trim strips (the part the inputs use).
WhiteSpace == {" ", "\t", "\n"}

LowerChar(c) ==
  IF \E i \in DOMAIN Upper : Upper[i] = c
  THEN Lower[CHOOSE i \in DOMAIN Upper : Upper[i] = c]
  ELSE c

\* String.prototype.toLowerCase
ToLowerCase(s) == [i \in DOMAIN s |-> LowerChar(s[i])]

\* String.prototype.trim
Trim(s) ==
  LET keep == {i \in DOMAIN s : s[i] \notin WhiteSpace}
  IN  IF keep = {} THEN <<>>
      ELSE LET lo == CHOOSE i \in keep : \A j \in keep : i <= j
               hi == CHOOSE i \in keep : \A j \in keep : j <= i
           IN  SubSeq(s, lo, hi)

\* String.prototype.startsWith
StartsWith(s, prefix) ==
  /\ Len(prefix) <= Len(s)
  /\ SubSeq(s, 1, Len(prefix)) = prefix

\* String.prototype.includes
Includes(s, sub) ==
  \E i \in 1..(Len(s) - Len(sub) + 1) : SubSeq(s, i, i + Len(sub) - 1) = sub

\* String.prototype.split with a one-character separator.
RECURSIVE Split(_, _)
Split(s, sep) ==
  IF \A i \in DOMAIN s : s[i] # sep THEN <<s>>
  ELSE LET k == CHOOSE i \in DOMAIN s :
                  /\ s[i] = sep
                  /\ \A j \in 1..(i - 1) : s[j] # sep
       IN  <<SubSeq(s, 1, k - 1)>> \o Split(SubSeq(s, k + 1, Len(s)), sep)

----------------------------------------------------------------------------
(* Connection manager state                                                *)

\* A ConnectionPool object right after `new sql.ConnectionPool(config)` and
\* `pool.connect()`: connects counts the connect() invocations on it,
\* closes the close() invocations.
NewHandle ==
  [state |-> "connecting", connects |-> 1, closes |-> 0]

IdleProc ==
  [pc |-> "idle", req |-> [type |-> "none"], calls |-> <<>>,
   results |-> <<>>, h |-> NoPool, sent |-> FALSE, issued |-> <<>>,
   outcome |-> [kind |-> "none"]]

\* One call of a manager method: api is connect, disconnect, query
\* (executeQuery) or execute (executeProcedure).
DbCall(t, api, stmt, args) ==
  [db |-> t, api |-> api, stmt |-> stmt, args |-> args]

Returned(v) == [kind |-> "returned", value |-> v]
Thrown(e) == [kind |-> "thrown", error |-> e]

----------------------------------------------------------------------------
(* The databases                                                           *)

\* JavaScript `undefined` where a string was expected (a missing argument);
\* no string equals it.  Interpolated into a template literal it reads
\* "undefined".
Undefined == <<"undefined">>
sUndefined == <<"u","n","d","e","f","i","n","e","d">>
Interp(v) == IF v = Undefined THEN sUndefined ELSE v

sDbo == <<"d","b","o">>
sDot == <<".">>

\* The keywords QueryTool.execute lets through, as the database reads them.
sSelect == <<"s","e","l","e","c","t">>
sInsert == <<"i","n","s","e","r","t">>
sUpdate == <<"u","p","d","a","t","e">>
sDelete == <<"d","e","l","e","t","e">>
sExec == <<"e","x","e","c">>
sExecute == <<"e","x","e","c","u","t","e">>

Obj(kind, schema, name, def) ==
  [kind |-> kind, schema |-> schema, name |-> name, def |-> def]

\* The catalogs the two databases start with.
MasterCatalog ==
  { Obj("tables", <<"A","p","p">>, <<"C">>, <<>>),
    Obj("views", sDbo, <<"V">>, <<"v","w">>) }
DataMgmtCatalog ==
  { Obj("tables", sDbo, <<"F">>, <<>>),
    Obj("procedures", sDbo, <<"P">>, <<"p","r">>),
    Obj("triggers", sDbo, <<"T","r">>, <<"t","g">>) }

\* Objects other clients of the databases create and drop while the server
\* runs.
MasterExtra == Obj("views", <<"A","p","p">>, <<"A">>, <<"a">>)
DataMgmtExtra == Obj("triggers", <<"x">>, <<"A">>, <<"b">>)

\* Collation order of characters: position in Lower, case-insensitive;
\* other characters sort first.
CharRank(c) ==
  LET l == LowerChar(c)
  IN  IF \E i \in DOMAIN Lower : Lower[i] = l
      THEN CHOOSE i \in DOMAIN Lower : Lower[i] = l
      ELSE 0

RECURSIVE StrLess(_, _)
StrLess(a, b) ==
  IF a = <<>> THEN b # <<>>
  ELSE IF b = <<>> THEN FALSE
  ELSE IF CharRank(a[1]) # CharRank(b[1]) THEN CharRank(a[1]) < CharRank(b[1])
  ELSE StrLess(Tail(a), Tail(b))

\* ORDER BY k1, k2 over the objects in S.
KeyLess(x, y, k1, k2) ==
  \/ StrLess(x[k1], y[k1])
  \/ x[k1] = y[k1] /\ StrLess(x[k2], y[k2])

RECURSIVE OrderBy(_, _, _)
OrderBy(S, k1, k2) ==
  IF S = {} THEN <<>>
  ELSE LET m == CHOOSE x \in S : \A y \in S \ {x} : ~KeyLess(y, x, k1, k2)
       IN  <<m>> \o OrderBy(S \ {m}, k1, k2)

\* Variant of OfKind: the objects the database started with.
OfKindAtStart(t, kind) ==
  {o \in (IF t = "master" THEN MasterCatalog ELSE DataMgmtCatalog) :
     o.kind = kind}

OfKind(t, kind) == {o \in catalog[t] : o.kind = kind}

\* NULL as the value of a text column.
SqlNull == <<"NULL">>

\* OBJECT_DEFINITION(OBJECT_ID(qualified)): OBJECT_ID resolves a one-part
\* name in the default schema dbo and a two-part name as schema.name, for an
\* object of any kind; the definition is NULL (here the empty text) when no
\* object has that name.
DefinitionRows(t, qualified) ==
  LET parts == Split(qualified, ".")
      hit == {o \in catalog[t] :
                \/ Len(parts) = 1 /\ o.schema = sDbo /\ o.name = parts[1]
                \/ Len(parts) = 2 /\ o.schema = parts[1] /\ o.name = parts[2]}
  IN  IF hit = {} THEN <<[definition |-> SqlNull]>>
      ELSE <<[definition |-> (CHOOSE o \in hit : TRUE).def]>>

\* The tables of the model have the columns Id and Name; a column no
\* statement gave a value is NULL.
Columns == {"Id", "Name"}
Null == 0

\* The text of a column or parameter name.
KeyChars ==
  [Id |-> <<"I","d">>, Name |-> <<"N","a","m","e">>, w |-> <<"w">>]

Row(id, name) == [Id |-> id, Name |-> name]

\* The rows the tables start with: App.C of master, dbo.F of datamgmt.
MasterRows == <<Row(1, 1)>>
DataMgmtRows == <<Row(3, 1)>>

\* request.input(key, value) for every entry: the value bound to @k.
HasParam(params, k) == \E i \in DOMAIN params : params[i][1] = k
ParamValue(params, k) ==
  params[CHOOSE i \in DOMAIN params : params[i][1] = k][2]

\* The database resolves [schema].[name], or a one- or two-part name in
\* the text of a statement, to a table; names compare case-insensitively.
IsTable(t, schema, name) ==
  \E o \in OfKind(t, "tables") :
    /\ ToLowerCase(o.schema) = ToLowerCase(schema)
    /\ ToLowerCase(o.name) = ToLowerCase(name)

IsTableText(t, qualified) ==
  LET parts == Split(qualified, ".")
  IN  \/ Len(parts) = 1 /\ IsTable(t, sDbo, parts[1])
      \/ Len(parts) = 2 /\ IsTable(t, parts[1], parts[2])

IsProcedureText(t, qualified) ==
  LET parts == Split(qualified, ".")
      named(S, N) == \E o \in OfKind(t, "procedures") :
                       /\ ToLowerCase(o.schema) = ToLowerCase(S)
                       /\ ToLowerCase(o.name) = ToLowerCase(N)
  IN  \/ Len(parts) = 1 /\ named(sDbo, parts[1])
      \/ Len(parts) = 2 /\ named(parts[1], parts[2])

\* The database parses a WHERE clause: `<column> = @<parameter>` over a
\* column of the table and a bound parameter is a condition; other text
\* is an error.
WhereParse(whereClause, params) ==
  LET parts == Split(whereClause, " ")
      cols == {k \in Columns : Len(parts) = 3 /\ KeyChars[k] = parts[1]}
      keys == {i \in DOMAIN params :
                 Len(parts) = 3 /\ <<"@">> \o KeyChars[params[i][1]] = parts[3]}
  IN  IF Len(parts) = 3 /\ parts[2] = <<"=">> /\ cols # {} /\ keys # {}
      THEN [ok |-> TRUE, col |-> CHOOSE k \in cols : TRUE,
            val |-> params[CHOOSE i \in keys : TRUE][2]]
      ELSE [ok |-> FALSE]

Matches(row, w) == row[w.col] = w.val

\* The items of the n-th parenthesised, comma-separated list in a
\* statement text.
ListInParens(sql, n) ==
  LET inner == Split(Split(sql, "(")[n + 1], ")")[1]
      items == Split(inner, ",")
  IN  [i \in DOMAIN items |-> Trim(items[i])]

\* The value the database takes for one item of a VALUES list: that of the
\* bound parameter an '@' item names, or the number an item spells.
ItemValue(item, params) ==
  IF Head(item) = "@"
  THEN LET bound == {j \in DOMAIN params : KeyChars[params[j][1]] = Tail(item)}
       IN  IF bound = {} THEN Null ELSE params[CHOOSE j \in bound : TRUE][2]
  ELSE CHOOSE d \in 0..9 :
         <<"0","1","2","3","4","5","6","7","8","9">>[d + 1] = Head(item)

\* The text after WHERE of `select * from <table> where <condition>`.
WherePart(sql) ==
  LET tok == Split(Trim(sql), " ")
  IN  tok[6] \o <<" ">> \o tok[7] \o <<" ">> \o tok[8]

\* The database parses the text of a free-form statement.
RawParse(t, sql) ==
  LET tok == Split(ToLowerCase(Trim(sql)), " ")
  IN  IF tok = <<sSelect, <<"1">> >> THEN "select1"
      ELSE IF /\ Len(tok) = 4
              /\ SubSeq(tok, 1, 3) = <<sSelect, <<"*">>, <<"f","r","o","m">> >>
              /\ IsTableText(t, tok[4])
      THEN "selectAll"
      ELSE IF /\ Len(tok) = 8
              /\ SubSeq(tok, 1, 3) = <<sSelect, <<"*">>, <<"f","r","o","m">> >>
              /\ IsTableText(t, tok[4])
              /\ tok[5] = <<"w","h","e","r","e">>
      THEN "selectWhere"
      ELSE IF /\ Len(tok) = 3
              /\ SubSeq(tok, 1, 2) = <<sDelete, <<"f","r","o","m">> >>
              /\ IsTableText(t, tok[3])
      THEN "deleteAll"
      ELSE IF Len(tok) = 2 /\ tok[1] = sExec /\ IsProcedureText(t, tok[2])
      THEN "exec"
      ELSE "error"

\* The database of target t executes the statement of call c without error.
Executes(t, c) ==
  CASE c.stmt = "getTableData" ->
         IsTable(t, c.args.schema, c.args.tableName)
    [] c.stmt = "insertData" ->
         /\ IsTable(t, c.args.schema, c.args.tableName)
         /\ c.args.columns # <<>>
         /\ \A i \in DOMAIN c.args.columns : c.args.columns[i] \in Columns
    [] c.stmt = "updateData" ->
         /\ IsTable(t, c.args.schema, c.args.tableName)
         /\ c.args.setClause # <<>>
         /\ \A i \in DOMAIN c.args.setClause : c.args.setClause[i] \in Columns
         /\ WhereParse(c.args.whereClause, c.args.params).ok
    [] c.stmt = "deleteData" ->
         /\ IsTable(t, c.args.schema, c.args.tableName)
         /\ WhereParse(c.args.whereClause, c.args.params).ok
    [] c.stmt = "raw" ->
         /\ RawParse(t, c.args.sql) # "error"
         /\ RawParse(t, c.args.sql) = "selectWhere"
            => WhereParse(WherePart(c.args.sql), c.args.params).ok
    [] c.stmt = "proc" -> IsProcedureText(t, c.args.name)
    [] OTHER -> TRUE

\* The rows of t's table after the statement of call c has executed.
DbApply(t, c) ==
  CASE c.stmt = "insertData" ->
         \* column i of the column list takes item i of the VALUES list
         LET cols == ListInParens(c.args.sql, 1)
             vals == ListInParens(c.args.sql, 2)
             at(k) == {i \in DOMAIN cols : cols[i] = KeyChars[k]}
         IN  Append(table[t],
                    [k \in Columns |->
                       IF at(k) = {} THEN Null
                       ELSE ItemValue(vals[CHOOSE i \in at(k) : TRUE],
                                      c.args.params)])
    [] c.stmt = "updateData" ->
         LET w == WhereParse(c.args.whereClause, c.args.params)
             set == {c.args.setClause[i] : i \in DOMAIN c.args.setClause}
         IN  [i \in DOMAIN table[t] |->
                IF Matches(table[t][i], w)
                THEN [k \in Columns |->
                        IF k \in set THEN ParamValue(c.args.params, k)
                        ELSE table[t][i][k]]
                ELSE table[t][i]]
    [] c.stmt = "deleteData" ->
         LET w == WhereParse(c.args.whereClause, c.args.params)
         IN  SelectSeq(table[t], LAMBDA r : ~Matches(r, w))
    [] c.stmt = "raw" /\ RawParse(t, c.args.sql) = "deleteAll" -> <<>>
    [] OTHER -> table[t]

\* The statement of call c changes rows and returns no row set.
IsMutation(t, c) ==
  \/ c.stmt \in {"insertData", "updateData", "deleteData"}
  \/ c.stmt = "raw" /\ RawParse(t, c.args.sql) = "deleteAll"

\* result.recordset of a statement that returns no row set: undefined.
NoRecordset == <<[undefined |-> TRUE]>>
IsNoRecordset(r) == Len(r) = 1 /\ "undefined" \in DOMAIN r[1]

\* OFFSET @offset ROWS FETCH NEXT @limit ROWS ONLY
Page(rs, limit, offset) ==
  SubSeq(rs, offset + 1, IF offset + limit < Len(rs) THEN offset + limit
                         ELSE Len(rs))

\* result.recordset: the record set the database of target t returns for a
\* statement that executes without error.
DbEval(t, c) ==
  CASE c.stmt = "getTables" ->
         [i \in DOMAIN OrderBy(OfKind(t, "tables"), "schema", "name") |->
            LET o == OrderBy(OfKind(t, "tables"), "schema", "name")[i]
            IN  [table_schema |-> o.schema, table_name |-> o.name]]
    [] c.stmt = "getViews" ->
         [i \in DOMAIN OrderBy(OfKind(t, "views"), "schema", "name") |->
            LET o == OrderBy(OfKind(t, "views"), "schema", "name")[i]
            IN  [table_schema |-> o.schema, table_name |-> o.name]]
    [] c.stmt = "getStoredProcedures" ->
         [i \in DOMAIN OrderBy(OfKind(t, "procedures"), "schema", "name") |->
            LET o == OrderBy(OfKind(t, "procedures"), "schema", "name")[i]
            IN  [routine_schema |-> o.schema, routine_name |-> o.name]]
    [] c.stmt = "getTriggers" ->
         [i \in DOMAIN OrderBy(OfKind(t, "triggers"), "name", "schema") |->
            LET o == OrderBy(OfKind(t, "triggers"), "name", "schema")[i]
            IN  [trigger_name |-> o.name, table_name |-> <<>>,
                 trigger_schema |-> o.schema]]
    [] c.stmt = "getTableSchema" ->
         IF \E o \in OfKind(t, "tables") :
              o.name = c.args.tableName /\ o.schema = c.args.schema
         THEN <<[column_name |-> <<"I","d">>]>>
         ELSE <<>>
    [] c.stmt = "getStoredProcedureDefinition" ->
         DefinitionRows(t, c.args.schema \o sDot \o c.args.procedureName)
    [] c.stmt = "getViewDefinition" ->
         DefinitionRows(t, c.args.schema \o sDot \o c.args.viewName)
    [] c.stmt = "getTriggerDefinition" ->
         DefinitionRows(t, c.args.triggerName)
    [] c.stmt = "getTableData" ->
         Page(table[t], c.args.limit, c.args.offset)
    [] IsMutation(t, c) -> NoRecordset
    [] c.stmt = "raw" /\ RawParse(t, c.args.sql) = "select1" ->
         <<[value |-> 1]>>
    [] c.stmt = "raw" /\ RawParse(t, c.args.sql) = "selectAll" -> table[t]
    [] c.stmt = "raw" /\ RawParse(t, c.args.sql) = "selectWhere" ->
         SelectSeq(table[t],
                   LAMBDA r : Matches(r, WhereParse(WherePart(c.args.sql),
                                                    c.args.params)))
    [] OTHER -> <<>>

----------------------------------------------------------------------------
(* The manager's catalog and CRUD methods: the call each one makes         *)

getTables(t) == DbCall(t, "query", "getTables", <<>>)

getTableSchema(t, tableName, schema) ==
  DbCall(t, "query", "getTableSchema",
         [tableName |-> tableName, schema |-> schema])

getStoredProcedures(t) == DbCall(t, "query", "getStoredProcedures", <<>>)

getStoredProcedureDefinition(t, procedureName, schema) ==
  DbCall(t, "query", "getStoredProcedureDefinition",
         [schema |-> schema, procedureName |-> procedureName])

getTriggers(t) == DbCall(t, "query", "getTriggers", <<>>)

getTriggerDefinition(t, triggerName) ==
  DbCall(t, "query", "getTriggerDefinition", [triggerName |-> triggerName])

getViews(t) == DbCall(t, "query", "getViews", <<>>)

getViewDefinition(t, viewName, schema) ==
  DbCall(t, "query", "getViewDefinition",
         [schema |-> schema, viewName |-> viewName])

\* SELECT * FROM [schema].[tableName] ... OFFSET @offset FETCH NEXT @limit
getTableData(t, tableName, schema, limit, offset) ==
  DbCall(t, "query", "getTableData",
         [schema |-> Interp(schema), tableName |-> Interp(tableName),
          limit |-> limit, offset |-> offset])

\* A JavaScript object is a sequence of <<key, value>> pairs in insertion
\* order.
Keys(o) == [i \in DOMAIN o |-> o[i][1]]

\* { ...a, ...b }: b's value wins for a key of both, a's position is kept.
Spread(a, b) ==
  LET inB(k) == \E j \in DOMAIN b : b[j][1] = k
      valB(k) == b[CHOOSE j \in DOMAIN b : b[j][1] = k][2]
      inA(k) == \E i \in DOMAIN a : a[i][1] = k
  IN  [i \in DOMAIN a |-> IF inB(a[i][1]) THEN <<a[i][1], valB(a[i][1])>>
                                          ELSE a[i]]
      \o SelectSeq(b, LAMBDA e : ~inA(e[1]))

\* Array.prototype.join
RECURSIVE Join(_, _)
Join(ss, sep) ==
  IF ss = <<>> THEN <<>>
  ELSE IF Len(ss) = 1 THEN ss[1]
  ELSE ss[1] \o sep \o Join(Tail(ss), sep)

sComma == <<",", " ">>

\* Variant of Placeholder: the value itself written into the text.
InlineValue(key, value) ==
  <<<<"0","1","2","3","4","5","6","7","8","9">>[value + 1]>>

\* `@${key}`: what the statement text holds in place of a value.
Placeholder(key, value) == <<"@">> \o KeyChars[key]

\* `[${schema}].[${tableName}]`
Bracketed(schema, tableName) ==
  <<"[">> \o Interp(schema) \o <<"]", ".", "[">> \o Interp(tableName) \o <<"]">>

\* Variant of InsertSql: the column list written in the opposite order.
InsertSqlColumnsReversed(tableName, schema, data) ==
  <<"\n"," "," "," "," "," "," ","I","N","S","E","R","T"," ","I","N","T","O"," ">>
    \o Bracketed(schema, tableName) \o <<" ", "(">>
    \o Join([i \in DOMAIN data |-> KeyChars[data[Len(data) + 1 - i][1]]],
            sComma)
    \o <<")"," ","\n"," "," "," "," "," "," ","V","A","L","U","E","S"," ","(">>
    \o Join([i \in DOMAIN data |-> Placeholder(data[i][1], data[i][2])],
            sComma)
    \o <<")","\n"," "," "," "," ">>

\* The template literals of insertData, updateData and deleteData.
InsertSql(tableName, schema, data) ==
  <<"\n"," "," "," "," "," "," ","I","N","S","E","R","T"," ","I","N","T","O"," ">>
    \o Bracketed(schema, tableName) \o <<" ", "(">>
    \o Join([i \in DOMAIN data |-> KeyChars[data[i][1]]], sComma)
    \o <<")"," ","\n"," "," "," "," "," "," ","V","A","L","U","E","S"," ","(">>
    \o Join([i \in DOMAIN data |-> Placeholder(data[i][1], data[i][2])],
            sComma)
    \o <<")","\n"," "," "," "," ">>

UpdateSql(tableName, schema, data, whereClause) ==
  <<"\n"," "," "," "," "," "," ","U","P","D","A","T","E"," ">>
    \o Bracketed(schema, tableName)
    \o <<" ","\n"," "," "," "," "," "," ","S","E","T"," ">>
    \o Join([i \in DOMAIN data |->
               <<"[">> \o KeyChars[data[i][1]] \o <<"]", " ", "=", " ">>
                 \o Placeholder(data[i][1], data[i][2])], sComma)
    \o <<" ","\n"," "," "," "," "," "," ","W","H","E","R","E"," ">>
    \o Interp(whereClause) \o <<"\n"," "," "," "," ">>

DeleteSql(tableName, schema, whereClause) ==
  <<"\n"," "," "," "," "," "," ","D","E","L","E","T","E"," ","F","R","O","M"," ">>
    \o Bracketed(schema, tableName)
    \o <<" ","\n"," "," "," "," "," "," ","W","H","E","R","E"," ">>
    \o Interp(whereClause) \o <<"\n"," "," "," "," ">>

\* Variant of insertData: every parameter bound to the value of the first.
insertDataFirstValue(t, tableName, schema, data) ==
  DbCall(t, "query", "insertData",
         [schema |-> Interp(schema), tableName |-> Interp(tableName),
          columns |-> Keys(data), values |-> Keys(data),
          params |-> [i \in DOMAIN data |-> <<data[i][1], data[1][2]>>],
          sql |-> InsertSql(tableName, schema, data)])

insertData(t, tableName, schema, data) ==
  DbCall(t, "query", "insertData",
         [schema |-> Interp(schema), tableName |-> Interp(tableName),
          columns |-> Keys(data), values |-> Keys(data), params |-> data,
          sql |-> InsertSql(tableName, schema, data)])

updateData(t, tableName, schema, data, whereClause, whereParameters) ==
  DbCall(t, "query", "updateData",
         [schema |-> Interp(schema), tableName |-> Interp(tableName),
          setClause |-> Keys(data), whereClause |-> Interp(whereClause),
          params |-> Spread(data, whereParameters),
          sql |-> UpdateSql(tableName, schema, data, whereClause)])

deleteData(t, tableName, schema, whereClause, whereParameters) ==
  DbCall(t, "query", "deleteData",
         [schema |-> Interp(schema), tableName |-> Interp(tableName),
          whereClause |-> Interp(whereClause), params |-> whereParameters,
          sql |-> DeleteSql(tableName, schema, whereClause)])

----------------------------------------------------------------------------
(* Resources: URIs, listing and reading                                    *)

sScheme == <<"m","c","p",":","/","/","s","s","m","s","/">>
sMaster == <<"m","a","s","t","e","r">>
sDataMgmt == <<"d","a","t","a","m","g","m","t">>
sSlash == <<"/">>
sTables == <<"t","a","b","l","e","s">>
sProcedures == <<"p","r","o","c","e","d","u","r","e","s">>
sTriggers == <<"t","r","i","g","g","e","r","s">>
sViews == <<"v","i","e","w","s">>

\* `${database}` for the literal the listing handler passes.
DbChars(database) == IF database = "master" THEN sMaster ELSE sDataMgmt

\* Variant of DbFor: one manager serves every target.
DbForAny(database) == "datamgmt"

\* `database === 'master' ? this.masterDb : this.dataMgmtDb`
DbFor(database) == IF database = "master" THEN "master" ELSE "datamgmt"
DbForChars(database) == IF database = sMaster THEN "master" ELSE "datamgmt"

\* parts[i] of JavaScript (0-based), undefined past the end.
Part(parts, i) == IF i + 1 <= Len(parts) THEN parts[i + 1] ELSE Undefined

\* TablesResource.listTables / ViewsResource.listViews: rows to resources.
TableResources(database, kind, rows) ==
  [i \in DOMAIN rows |->
     [uri |-> sScheme \o DbChars(database) \o sSlash \o kind \o sSlash
                \o rows[i].table_schema \o sDot \o rows[i].table_name,
      name |-> rows[i].table_schema \o sDot \o rows[i].table_name]]

\* ProceduresResource.listProcedures
ProcedureResources(database, rows) ==
  [i \in DOMAIN rows |->
     [uri |-> sScheme \o DbChars(database) \o sSlash \o sProcedures \o sSlash
                \o rows[i].routine_schema \o sDot \o rows[i].routine_name,
      name |-> rows[i].routine_schema \o sDot \o rows[i].routine_name]]

\* TriggersResource.listTriggers
TriggerResources(database, rows) ==
  [i \in DOMAIN rows |->
     [uri |-> sScheme \o DbChars(database) \o sSlash \o sTriggers \o sSlash
                \o rows[i].trigger_name,
      name |-> rows[i].trigger_name]]

\* The ListResources handler: its eight manager calls, in order.
ListCalls ==
  << getTables("master"), getTables("datamgmt"),
     getStoredProcedures("master"), getStoredProcedures("datamgmt"),
     getTriggers("master"), getTriggers("datamgmt"),
     getViews("master"), getViews("datamgmt") >>

\* ... and the listing it returns from their eight results.
ListResult(r) ==
  [resources |->
     TableResources("master", sTables, r[1])
       \o TableResources("datamgmt", sTables, r[2])
       \o ProcedureResources("master", r[3])
       \o ProcedureResources("datamgmt", r[4])
       \o TriggerResources("master", r[5])
       \o TriggerResources("datamgmt", r[6])
       \o TableResources("master", sViews, r[7])
       \o TableResources("datamgmt", sViews, r[8])]

\* The kind the ReadResource handler dispatches a URI to.
ResourceKind(uri) ==
  IF Includes(uri, sSlash \o sTables \o sSlash) THEN "tables"
  ELSE IF Includes(uri, sSlash \o sProcedures \o sSlash) THEN "procedures"
  ELSE IF Includes(uri, sSlash \o sTriggers \o sSlash) THEN "triggers"
  ELSE IF Includes(uri, sSlash \o sViews \o sSlash) THEN "views"
  ELSE "unknown"

\* get<Kind>Resource(uri): the target and the name the reader takes out of
\* the URI.
UriDatabase(uri) == Part(Split(uri, "/"), 2)
UriName(uri) == Part(Split(uri, "/"), 4)

\* The manager calls reading a URI makes.
ReadCalls(uri) ==
  LET db == DbForChars(UriDatabase(uri))
      name == UriName(uri)
  IN  CASE ResourceKind(uri) = "tables" ->
             << getTableSchema(db, name, sDbo),
                getTableData(db, name, sDbo, 10, 0) >>
        [] ResourceKind(uri) = "procedures" ->
             << getStoredProcedureDefinition(db, name, sDbo) >>
        [] ResourceKind(uri) = "triggers" ->
             << getTriggerDefinition(db, name) >>
        [] ResourceKind(uri) = "views" ->
             << getViewDefinition(db, name, sDbo) >>
        [] OTHER -> <<>>

\* Variant of DefinitionText: without `|| ''`.
DefinitionTextRaw(rows) == IF rows = <<>> THEN Undefined ELSE rows[1].definition

\* result[0]?.definition || ''
DefinitionText(rows) ==
  IF rows = <<>> \/ rows[1].definition \in {SqlNull, <<>>} THEN <<>>
  ELSE rows[1].definition

\* What a read returns from the results of its calls.
ReadResult(uri, r) ==
  IF ResourceKind(uri) = "tables"
  THEN [uri |-> uri, mimeType |-> "application/json",
        text |-> [table |-> UriName(uri), schema |-> r[1],
                  sampleData |-> r[2]]]
  ELSE [uri |-> uri, mimeType |-> "text/sql", text |-> DefinitionText(r[1])]

----------------------------------------------------------------------------
(* Tools                                                                   *)

\* config.maxRows, with MAX_ROWS not set in the environment.
maxRows == 1000

\* args[k], or d when the caller left k out.
ArgOr(args, k, d) == IF k \in DOMAIN args THEN args[k] ELSE d

\* Variant of PassesGate: a gate that lets EXEC and EXECUTE through no more.
PassesGateNoExec(query) ==
  LET trimmedQuery == ToLowerCase(Trim(query))
  IN  \/ StartsWith(trimmedQuery, sSelect)
      \/ StartsWith(trimmedQuery, sInsert)
      \/ StartsWith(trimmedQuery, sUpdate)
      \/ StartsWith(trimmedQuery, sDelete)

\* QueryTool.execute's gate: true when the statement is let through.
PassesGate(query) ==
  LET trimmedQuery == ToLowerCase(Trim(query))
  IN  \/ StartsWith(trimmedQuery, sSelect)
      \/ StartsWith(trimmedQuery, sInsert)
      \/ StartsWith(trimmedQuery, sUpdate)
      \/ StartsWith(trimmedQuery, sDelete)
      \/ StartsWith(trimmedQuery, sExec)
      \/ StartsWith(trimmedQuery, sExecute)

eTypeError == <<"TypeError">>
eNotAllowed ==
  <<"Only SELECT, INSERT, UPDATE, DELETE, and EXEC statements are allowed">>
eUnknownTool(name) == <<"Unknown tool: ", name>>
eUnknownResource(uri) == <<"Unknown resource type: ", uri>>
eNotEstablished == <<"Database connection not established">>
eConnect == <<"ConnectionError">>
eNotOpen == <<"ConnectionError: ENOTOPEN">>
eRequest == <<"RequestError">>

\* Variant of ToolNames: a switch without the case for getViews.
ToolNamesWithoutViews ==
  {"executeQuery", "insertData", "updateData", "deleteData", "getSchema",
   "getTables", "getTableSchema", "getStoredProcedures", "getTriggers"}

ToolNames ==
  {"executeQuery", "insertData", "updateData", "deleteData", "getSchema",
   "getTables", "getTableSchema", "getStoredProcedures", "getTriggers",
   "getViews"}

\* The ListTools handler: the names of the tools it returns.
AdvertisedTools ==
  {"executeQuery", "insertData", "updateData", "deleteData", "getSchema",
   "getTables", "getTableSchema", "getStoredProcedures", "getTriggers",
   "getViews"}

\* The inputSchema each tool declares: its required arguments and the
\* values its enumerated arguments allow.
Required(name) ==
  CASE name = "executeQuery" -> {"database", "query"}
    [] name = "insertData" -> {"database", "tableName", "data"}
    [] name = "updateData" -> {"database", "tableName", "data", "whereClause"}
    [] name = "deleteData" -> {"database", "tableName", "whereClause"}
    [] name = "getTableSchema" -> {"database", "tableName"}
    [] OTHER -> {"database"}

DatabaseEnum == {"master", "datamgmt"}
ObjectTypeEnum == {"tables", "procedures", "triggers", "views", "all"}

\* SchemaTool.getSchema: the groups an objectType selects, in the order
\* the code fills them.
SchemaGroups(objectType) ==
  SelectSeq(<<"tables", "procedures", "triggers", "views">>,
            LAMBDA g : objectType = "all" \/ objectType = g)

GroupCall(db, g) ==
  CASE g = "tables" -> getTables(db)
    [] g = "procedures" -> getStoredProcedures(db)
    [] g = "triggers" -> getTriggers(db)
    [] g = "views" -> getViews(db)

Reject(e) == [reject |-> TRUE, error |-> e, calls |-> <<>>]
Calls(cs) == [reject |-> FALSE, error |-> <<>>, calls |-> cs]

\* What a tool handler does before its first await: it throws (reject), or
\* it makes the manager calls listed, one after the other.
ToolPlan(name, hasArgs, args) ==
  LET db == DbFor(ArgOr(args, "database", "undefined"))
      tableName == ArgOr(args, "tableName", Undefined)
      schema == ArgOr(args, "schema", sDbo)
  IN  IF name \notin ToolNames THEN Reject(eUnknownTool(name))
      ELSE IF ~hasArgs THEN Reject(eTypeError)
      ELSE CASE name = "executeQuery" ->
                  IF "query" \notin DOMAIN args THEN Reject(eTypeError)
                  ELSE IF ~PassesGate(args.query) THEN Reject(eNotAllowed)
                  ELSE Calls(<<DbCall(db, "query", "raw",
                                 [sql |-> args.query,
                                  params |-> ArgOr(args, "parameters", <<>>)])>>)
             [] name = "insertData" ->
                  IF "data" \notin DOMAIN args THEN Reject(eTypeError)
                  ELSE Calls(<<insertData(db, tableName, schema, args.data)>>)
             [] name = "updateData" ->
                  IF "data" \notin DOMAIN args THEN Reject(eTypeError)
                  ELSE Calls(<<updateData(db, tableName, schema, args.data,
                                 ArgOr(args, "whereClause", Undefined),
                                 ArgOr(args, "whereParameters", <<>>))>>)
             [] name = "deleteData" ->
                  Calls(<<deleteData(db, tableName, schema,
                            ArgOr(args, "whereClause", Undefined),
                            ArgOr(args, "whereParameters", <<>>))>>)
             [] name = "getSchema" ->
                  LET groups == SchemaGroups(ArgOr(args, "objectType", "all"))
                  IN  Calls([i \in DOMAIN groups |-> GroupCall(db, groups[i])])
             [] name = "getTables" -> Calls(<<getTables(db)>>)
             [] name = "getTableSchema" ->
                  Calls(<<getTableSchema(db, tableName, schema)>>)
             [] name = "getStoredProcedures" ->
                  Calls(<<getStoredProcedures(db)>>)
             [] name = "getTriggers" -> Calls(<<getTriggers(db)>>)
             [] name = "getViews" -> Calls(<<getViews(db)>>)

\* The envelope a tool returns when all its calls succeeded with results r.
ToolResult(name, args, r) ==
  LET database == ArgOr(args, "database", "undefined")
  IN  CASE name = "executeQuery" ->
             \* `result.length` of an undefined record set throws inside
             \* the try block
             IF IsNoRecordset(r[1])
             THEN [success |-> FALSE, error |-> eTypeError]
             ELSE [success |-> TRUE, data |-> r[1], rowCount |-> Len(r[1])]
        [] name \in {"insertData", "updateData", "deleteData"} ->
             [success |-> TRUE, affectedRows |-> 1]
        [] name = "getSchema" ->
             LET groups == SchemaGroups(ArgOr(args, "objectType", "all"))
             IN  [success |-> TRUE, database |-> database,
                  schema |-> [i \in DOMAIN groups |-> <<groups[i], r[i]>>]]
        [] OTHER ->
             [success |-> TRUE, database |-> database, data |-> r[1]]

----------------------------------------------------------------------------
(* Requests                                                                *)

ToolReq(name, hasArgs, args) ==
  [type |-> "tool", name |-> name, hasArgs |-> hasArgs, args |-> args]
ReadReq(uri) == [type |-> "read", uri |-> uri]
ListReq == [type |-> "list"]
ApiReq(api, t) == [type |-> "api", api |-> api, db |-> t]

\* What the handler of req does before its first await.
Plan(req) ==
  CASE req.type = "tool" -> ToolPlan(req.name, req.hasArgs, req.args)
    [] req.type = "read" ->
         IF ResourceKind(req.uri) = "unknown"
         THEN Reject(eUnknownResource(req.uri))
         ELSE Calls(ReadCalls(req.uri))
    [] req.type = "list" -> Calls(ListCalls)

\* How the handler of req ends when error e is thrown inside it: the
\* CallTool handler and the tools catch and return the failure envelope;
\* the resource handlers and the manager methods have no catch.
Failure(req, e) ==
  IF req.type = "tool"
  THEN Returned([success |-> FALSE, error |-> e])
  ELSE Thrown(e)

\* How it ends when every call succeeded, with results r.
Success(req, r) ==
  CASE req.type = "tool" -> Returned(ToolResult(req.name, req.args, r))
    [] req.type = "read" -> Returned(ReadResult(req.uri, r))
    [] req.type = "list" -> Returned(ListResult(r))
    [] req.type = "api" -> Returned(r)

----------------------------------------------------------------------------
(* The connection manager: connect, disconnect, executeQuery,              *)
(* executeProcedure, from one await to the next                            *)

\* Variant of Finish: a handler that hands out, with the error, the results
\* of the calls that succeeded before the failing one.
FinishWithPartial(pr, outcome) ==
  LET partial ==
        IF pr.results = <<>> THEN outcome
        ELSE IF outcome.kind = "thrown"
             THEN [kind |-> "thrown", error |-> outcome.error,
                   data |-> pr.results]
        ELSE IF "success" \in DOMAIN outcome.value /\ ~outcome.value.success
             THEN Returned([success |-> FALSE, error |-> outcome.value.error,
                            data |-> pr.results])
        ELSE outcome
  IN  IF pr.req.type = "api"
      THEN [IdleProc EXCEPT !.req = pr.req, !.outcome = outcome]
      ELSE [pr EXCEPT !.pc = "idle", !.outcome = partial, !.calls = <<>>,
                      !.results = <<>>, !.h = NoPool, !.sent = FALSE]

\* The handler in slot pr ends with this outcome.  The slot of a front-end
\* request keeps the request and the statements it sent along with the
\* outcome; the slot of a direct caller of a manager keeps the call and
\* its outcome.
Finish(pr, outcome) ==
  IF pr.req.type = "api"
  THEN [IdleProc EXCEPT !.req = pr.req, !.outcome = outcome]
  ELSE [pr EXCEPT !.pc = "idle", !.outcome = outcome, !.calls = <<>>,
                  !.results = <<>>, !.h = NoPool, !.sent = FALSE]

\* Variants of NeedsPool: connect() that also replaces a handle that is
\* not connected yet, and connect() without the check.
NeedsPoolUnlessConnected(t) ==
  \/ pool[t] = NoPool
  \/ handles[t][pool[t]].state # "connected"
NeedsPoolAlways(t) == TRUE

\* `if (!this.pool)` of connect()
NeedsPool(t) == pool[t] = NoPool

\* `if (this.pool)` of disconnect()
HasPool(t) == pool[t] # NoPool

\* Variant of PoolAfterClose: disconnect() that keeps the closed handle.
PoolKeptAfterClose(t) == pool[t]

\* `this.pool = null` of disconnect()
PoolAfterClose(t) == NoPool

\* connect() up to its await: a manager without a handle constructs one,
\* stores it and awaits its connect(); a manager with a handle returns.
connect(p, pr, t) ==
  /\ everUsed' = everUsed \cup {t}
  /\ IF NeedsPool(t)
     THEN /\ Len(handles[t]) < MaxHandles
          /\ handles' = [handles EXCEPT ![t] = Append(@, NewHandle)]
          /\ pool' = [pool EXCEPT ![t] = Len(handles[t]) + 1]
          /\ proc' = [proc EXCEPT ![p] =
                        [pr EXCEPT !.pc = "connecting",
                                   !.h = Len(handles[t]) + 1]]
     ELSE /\ proc' = [proc EXCEPT ![p] = [pr EXCEPT !.pc = "connected"]]
          /\ UNCHANGED <<pool, handles>>

\* The handler goes on to its next manager call, or returns when none is
\* left.  executeQuery and executeProcedure start with `await this.connect()`.
Enter(p, pr) ==
  IF pr.calls = <<>>
  THEN /\ proc' = [proc EXCEPT ![p] = Finish(pr, Success(pr.req, pr.results))]
       /\ UNCHANGED <<pool, handles, everUsed>>
  ELSE connect(p, pr, Head(pr.calls).db)

\* pool.connect() of the handle slot p constructed (proc[p].h) settles: it resolves when
\* the database is reachable and rejects otherwise, and connect() with it.
ConnectSettle(p) ==
  LET pr == proc[p]
      t == Head(pr.calls).db
      h == pr.h
      ok == reachable[t]
  IN  /\ running
      /\ pr.pc = "connecting"
      /\ handles' = [handles EXCEPT ![t][h].state =
                       IF @ # "connecting" THEN @
                       ELSE IF ok THEN "connected" ELSE "failed"]
      /\ proc' = [proc EXCEPT ![p] =
                    IF ok THEN [pr EXCEPT !.pc = "connected"]
                    ELSE Finish(pr, Failure(pr.req, eConnect))]
      /\ UNCHANGED <<pool, reachable, catalog, table, everUsed, running>>

\* Variant of Propagate: a front-end handler that sends the failed
\* statement a second time before it gives up.
RetryOnce(pr, e) ==
  IF pr.req.type # "api" /\ Len(pr.issued) <= 1
  THEN [pr EXCEPT !.pc = "connected", !.h = NoPool, !.sent = FALSE]
  ELSE IF pr.req.type = "api"
       THEN [IdleProc EXCEPT !.req = pr.req,
                             !.outcome = Failure(pr.req, e)]
       ELSE [pr EXCEPT !.pc = "idle", !.outcome = Failure(pr.req, e),
                       !.calls = <<>>, !.results = <<>>, !.h = NoPool,
                       !.sent = FALSE]

\* `await request.query(query)` / `await request.execute(...)` rejects with
\* e: no method between the driver and the handler catches it, so the
\* handler ends with it.
Propagate(pr, e) == Finish(pr, Failure(pr.req, e))

\* After `await this.connect()`: connect() itself is done; executeQuery and
\* executeProcedure check the handle, take a request from it and send the
\* statement.  A request on a handle that is not connected never reaches
\* the database (mssql rejects it with ENOTOPEN).
Proceed(p) ==
  LET pr == proc[p]
      c == Head(pr.calls)
      t == c.db
  IN  /\ running
      /\ pr.pc = "connected"
      /\ proc' = [proc EXCEPT ![p] =
           IF c.api = "connect" THEN Finish(pr, Success(pr.req, <<>>))
           ELSE IF pool[t] = NoPool
                THEN Finish(pr, Failure(pr.req, eNotEstablished))
           ELSE [pr EXCEPT !.pc = "querying", !.h = pool[t],
                           !.sent = (handles[t][pool[t]].state = "connected"),
                           !.issued = Append(@, [db |-> t, h |-> pool[t],
                                                 call |-> c])]]
      /\ UNCHANGED <<pool, handles, reachable, catalog, table, everUsed,
                     running>>

\* request.query / request.execute settles: with the record set, the
\* statement applied, or with an error and nothing applied (always, when the
\* statement never reached a reachable database or the database rejects it).
QuerySettle(p) ==
  LET pr == proc[p]
      c == Head(pr.calls)
      t == c.db
  IN  /\ running
      /\ pr.pc = "querying"
      /\ \E ok \in {b \in BOOLEAN :
                    b => /\ pr.sent
                         /\ reachable[t]
                         /\ Executes(t, c)
                         /\ Len(DbApply(t, c)) <= MaxTableRows} :
           IF ok
           THEN /\ Enter(p, [pr EXCEPT !.calls = Tail(@),
                                       !.results = Append(@, DbEval(t, c)),
                                       !.h = NoPool, !.sent = FALSE])
                /\ table' = [table EXCEPT ![t] = DbApply(t, c)]
           ELSE /\ proc' = [proc EXCEPT ![p] =
                     Propagate(pr, IF pr.sent THEN eRequest ELSE eNotOpen)]
                /\ UNCHANGED <<pool, handles, everUsed, table>>
      /\ UNCHANGED <<reachable, catalog, running>>

\* A call made by request req starts in slot p.
Start(p, req) ==
  LET pl == Plan(req)
      pr == [IdleProc EXCEPT !.req = req, !.calls = pl.calls]
  IN  /\ running
      /\ proc[p].pc = "idle"
      /\ IF pl.reject
         THEN /\ proc' = [proc EXCEPT ![p] = Finish(pr, Failure(req, pl.error))]
              /\ UNCHANGED <<pool, handles, everUsed>>
         ELSE Enter(p, pr)
      /\ UNCHANGED <<reachable, catalog, table, running>>

\* db.connect() called directly.
ApiConnect(p, t) ==
  /\ running
  /\ proc[p].pc = "idle"
  /\ connect(p, [IdleProc EXCEPT !.req = ApiReq("connect", t),
                                 !.calls = <<DbCall(t, "connect", "", <<>>)>>], t)
  /\ UNCHANGED <<reachable, catalog, table, running>>

\* db.executeQuery(query) called directly.
ApiExecuteQuery(p, t) ==
  /\ running
  /\ proc[p].pc = "idle"
  /\ Enter(p, [IdleProc EXCEPT !.req = ApiReq("query", t),
                               !.calls = <<DbCall(t, "query", "raw",
                                             [sql |-> sSelect, params |-> <<>>])>>])
  /\ UNCHANGED <<reachable, catalog, table, running>>

\* db.executeProcedure(procedureName) called directly.
ApiExecuteProcedure(p, t) ==
  /\ running
  /\ proc[p].pc = "idle"
  /\ Enter(p, [IdleProc EXCEPT !.req = ApiReq("execute", t),
                               !.calls = <<DbCall(t, "execute", "proc",
                                             [name |-> <<"P">>, params |-> <<>>])>>])
  /\ UNCHANGED <<reachable, catalog, table, running>>

\* db.disconnect() called directly, up to its await: with a handle it calls
\* close() on it and awaits; without one it returns.
ApiDisconnect(p, t) ==
  LET pr == [IdleProc EXCEPT !.req = ApiReq("disconnect", t)]
      h == pool[t]
  IN  /\ running
      /\ proc[p].pc = "idle"
      /\ IF HasPool(t)
         THEN /\ handles' = [handles EXCEPT ![t][h].state = "closed",
                                            ![t][h].closes = @ + 1]
              /\ proc' = [proc EXCEPT ![p] =
                            [pr EXCEPT !.pc = "closing", !.h = h]]
         ELSE /\ proc' = [proc EXCEPT ![p] = Finish(pr, Returned(<<>>))]
              /\ UNCHANGED handles
      /\ UNCHANGED <<pool, reachable, catalog, table, everUsed, running>>

\* pool.close() settles and disconnect() drops the handle.
DisconnectSettle(p) ==
  LET pr == proc[p]
      t == pr.req.db
  IN  /\ running
      /\ pr.pc = "closing"
      /\ pool' = [pool EXCEPT ![t] = PoolAfterClose(t)]
      /\ proc' = [proc EXCEPT ![p] = Finish(pr, Returned(<<>>))]
      /\ UNCHANGED <<handles, reachable, catalog, table, everUsed, running>>

----------------------------------------------------------------------------
(* Environment                                                             *)

\* The database of target t goes down or comes back.
SetReachable(t) ==
  /\ running
  /\ reachable' = [reachable EXCEPT ![t] = ~@]
  /\ UNCHANGED <<pool, handles, catalog, table, proc, everUsed, running>>

\* Another client of t's database creates or drops an object, while no
\* request of the server is in flight.
CatalogChange(t) ==
  LET o == IF t = "master" THEN MasterExtra ELSE DataMgmtExtra
  IN  /\ running
      /\ \A p \in Callers : proc[p].pc = "idle"
      /\ catalog' = [catalog EXCEPT ![t] =
                       IF o \in @ THEN @ \ {o} ELSE @ \cup {o}]
      /\ UNCHANGED <<pool, handles, reachable, table, proc, everUsed, running>>

\* The process ends (its transport closes or it is killed).  The entry
\* point installs no shutdown hook, so nothing runs on the way out.
Stop ==
  /\ running
  /\ running' = FALSE
  /\ UNCHANGED <<pool, handles, reachable, catalog, table, proc, everUsed>>

----------------------------------------------------------------------------
(* Inputs                                                                  *)

\* The resources a listing returns for the current catalogs.
Listing ==
  ListResult([i \in DOMAIN ListCalls |->
                DbEval(ListCalls[i].db, ListCalls[i])]).resources

\* URIs a client reads: every listed one, one of a kind the server does not
\* know, and one written <proto>://<target>/<kind>/<identifier>.
ReadUris ==
  {Listing[i].uri : i \in DOMAIN Listing}
    \cup { <<"m","c","p",":","/","/","s","s","m","s","/","m","a","s","t","e","r","/","f","u","n","c","t","i","o","n","s","/","d","b","o",".","f">>,
           <<"m","c","p",":","/","/","m","a","s","t","e","r","/","t","a","b","l","e","s","/","A","p","p",".","C">> }

qSelect == <<"S","E","L","E","C","T"," ","1">>
qSelectPadded == <<" ","\t","s","e","l","e","c","t"," ","1","\n">>
qDrop == <<"D","R","O","P"," ","T","A","B","L","E"," ","t">>
qSelectX == <<"S","E","L","E","C","T","X"," ","1">>
qExecuteFoo == <<"E","X","E","C","U","T","E","F","O","O">>
qDeleted == <<"D","E","L","E","T","E","D">>
qExec == <<"e","x","e","c"," ","p">>
qUpdate == <<"U","p","d","a","t","e"," ","t">>
qEmpty == <<>>
qDeleteFrom == <<"D","E","L","E","T","E"," ","F","R","O","M"," ","F">>
qSelectFrom == <<"s","e","l","e","c","t"," ","*"," ","f","r","o","m"," ","d","b","o",".","F">>
qSelectWhere == qSelectFrom \o <<" ","w","h","e","r","e"," ">> \o <<"I","d"," ","="," ","@","I","d">>

\* URIs written <proto>://<target>/<kind>/<name> that a client reads for
\* the definition of an object, and one as the listing writes it.
DefinitionUris ==
  { <<"m","c","p",":","/","/","d","a","t","a","m","g","m","t","/">> \o sTriggers \o <<"/","T","r">>,
    <<"m","c","p",":","/","/","d","a","t","a","m","g","m","t","/">> \o sTriggers \o <<"/","x",".","A">>,
    <<"m","c","p",":","/","/","d","a","t","a","m","g","m","t","/">> \o sProcedures \o <<"/","P">>,
    <<"m","c","p",":","/","/","d","a","t","a","m","g","m","t","/">> \o sProcedures \o <<"/","Q">>,
    <<"m","c","p",":","/","/","m","a","s","t","e","r","/">> \o sViews \o <<"/","V">>,
    sScheme \o sMaster \o sSlash \o sViews \o <<"/","d","b","o",".","V">> }

Queries ==
  {qSelect, qSelectPadded, qDrop, qSelectX, qExecuteFoo, qDeleted, qExec,
   qUpdate, qEmpty}

sF == <<"F">>
sWhere == <<"I","d"," ","="," ","@","I","d">>
Row1 == << <<"Id", 1>>, <<"Name", 2>> >>
WhereParams1 == << <<"Id", 3>> >>

sWhereW == <<"I","d"," ","="," ","@","w">>
Row2 == << <<"Id", 2>>, <<"Name", 2>> >>
NameOnly == << <<"Name", 2>> >>
RowNameFirst == << <<"Name", 2>>, <<"Id", 1>> >>
WhereParamsW == << <<"w", 3>> >>
WhereParams2 == << <<"Id", 2>> >>

\* Tool invocations that read and change the rows of dbo.F of datamgmt.
DataRequests ==
  {ToolReq("insertData", TRUE,
           [database |-> "datamgmt", tableName |-> sF, data |-> d]) :
     d \in {Row1, Row2, RowNameFirst}}
  \cup
  {ToolReq("updateData", TRUE,
           [database |-> "datamgmt", tableName |-> sF, data |-> Row1,
            whereClause |-> sWhere, whereParameters |-> WhereParams1]),
   ToolReq("updateData", TRUE,
           [database |-> "datamgmt", tableName |-> sF, data |-> NameOnly,
            whereClause |-> sWhereW, whereParameters |-> WhereParamsW])}
  \cup
  {ToolReq("deleteData", TRUE,
           [database |-> "datamgmt", tableName |-> sF,
            whereClause |-> sWhere, whereParameters |-> w]) :
     w \in {WhereParams1, WhereParams2}}
  \cup
  {ToolReq("executeQuery", TRUE, [database |-> "datamgmt", query |-> q]) :
     q \in {qSelect, qSelectFrom, qDeleteFrom}}
  \cup
  {ToolReq("executeQuery", TRUE,
           [database |-> "datamgmt", query |-> qSelectFrom, limit |-> 1])}
  \cup
  {ToolReq("executeQuery", TRUE,
           [database |-> "datamgmt", query |-> qSelectWhere,
            parameters |-> w]) :
     w \in {WhereParams1, WhereParams2}}

\* Tool invocations that list the objects of a kind.
ListRequests ==
  {ToolReq(n, TRUE, [database |-> d]) :
     n \in {"getTables", "getViews", "getStoredProcedures", "getTriggers"},
     d \in DatabaseEnum}

\* Tool invocations a client makes whose statements leave the tables as
\* they are.
ToolRequests ==
  {ToolReq("executeQuery", TRUE, [database |-> "master", query |-> q]) :
     q \in Queries}
  \cup
  {ToolReq("executeQuery", TRUE, [database |-> "datamgmt", query |-> qSelect]),
   ToolReq("executeQuery", TRUE,
           [database |-> "datamgmt", query |-> qSelectPadded,
            parameters |-> WhereParams1]),
   ToolReq("executeQuery", TRUE, [database |-> "staging", query |-> qSelect]),
   ToolReq("executeQuery", TRUE, [database |-> "master"]),
   ToolReq("executeQuery", FALSE, <<>>),
   ToolReq("insertData", TRUE, [database |-> "datamgmt", tableName |-> sF]),
   ToolReq("updateData", TRUE,
           [database |-> "datamgmt", tableName |-> sF, data |-> Row1,
            whereParameters |-> WhereParams1]),
   ToolReq("deleteData", TRUE,
           [database |-> "datamgmt", tableName |-> <<"G">>,
            whereClause |-> sWhere, whereParameters |-> WhereParams1]),
   ToolReq("deleteData", TRUE, [database |-> "master", tableName |-> sF]),
   ToolReq("getSchema", TRUE, [database |-> "master"]),
   ToolReq("getSchema", TRUE, [database |-> "datamgmt", objectType |-> "views"]),
   ToolReq("getSchema", TRUE, [database |-> "master", objectType |-> "indexes"]),
   ToolReq("getTables", TRUE, [database |-> "master"]),
   ToolReq("getTables", TRUE, [database |-> "datamgmt"]),
   ToolReq("getTables", TRUE, [database |-> "staging"]),
   ToolReq("getTables", TRUE, <<>>),
   ToolReq("getTableSchema", TRUE,
           [database |-> "master", tableName |-> <<"C">>,
            schema |-> <<"A","p","p">>]),
   ToolReq("getTableSchema", TRUE, [database |-> "master"]),
   ToolReq("getStoredProcedures", TRUE, [database |-> "datamgmt"]),
   ToolReq("getTriggers", TRUE, [database |-> "datamgmt"]),
   ToolReq("getViews", TRUE, [database |-> "master"]),
   ToolReq("execute_procedure", TRUE, [database |-> "master"]),
   ToolReq("execute_procedure", TRUE,
           [database |-> "datamgmt", procedureName |-> <<"P">>]),
   ToolReq("executeProcedure", TRUE,
           [database |-> "datamgmt", procedureName |-> <<"P">>]),
   ToolReq("get_tables", TRUE, [database |-> "master"])}

----------------------------------------------------------------------------
(* Specifications                                                          *)

Init ==
  /\ pool = [t \in Targets |-> NoPool]
  /\ handles = [t \in Targets |-> <<>>]
  /\ reachable = [t \in Targets |-> TRUE]
  /\ catalog = [t \in Targets |->
                  IF t = "master" THEN MasterCatalog ELSE DataMgmtCatalog]
  /\ table = [t \in Targets |->
               IF t = "master" THEN MasterRows ELSE DataMgmtRows]
  /\ proc = [p \in Callers |-> IdleProc]
  /\ everUsed = {}
  /\ running = TRUE

\* The CallTool handler.
CallTool(p) == \E req \in ToolRequests : Start(p, req)

\* The CallTool handler, for the invocations that work on table rows.
CallToolData(p) == \E req \in DataRequests : Start(p, req)

\* The CallTool handler, for the invocations that list objects.
CallToolList(p) == \E req \in ListRequests : Start(p, req)

\* The ReadResource handler.
ReadResource(p) == \E uri \in ReadUris : Start(p, ReadReq(uri))

\* The ListResources handler.
ListResources(p) == Start(p, ListReq)

\* The ReadResource handler, for the reads of an object's definition.
ReadDefinition(p) == \E uri \in DefinitionUris : Start(p, ReadReq(uri))

\* The server: requests arrive over the transport and are handled one at a
\* time in slot 1.
Next ==
  \/ CallTool(1)
  \/ ReadResource(1)
  \/ ListResources(1)
  \/ ConnectSettle(1)
  \/ Proceed(1)
  \/ QuerySettle(1)
  \/ \E t \in Targets : SetReachable(t)
  \/ Stop

Spec == Init /\ [][Next]_vars

\* The manager the API specifications exercise: DataManagementDatabase.
ApiTarget == "datamgmt"

\* Slots only name the calls in flight: a new call takes the lowest slot
\* that is free.
FreeSlot(p) ==
  /\ proc[p].pc = "idle"
  /\ \A q \in Callers : q < p => proc[q].pc # "idle"

\* One connection manager under concurrent callers of its methods.
NextDb ==
  \/ \E p \in Callers : FreeSlot(p) /\ ApiConnect(p, ApiTarget)
  \/ \E p \in Callers : FreeSlot(p) /\ ApiExecuteQuery(p, ApiTarget)
  \/ \E p \in Callers : FreeSlot(p) /\ ApiExecuteProcedure(p, ApiTarget)
  \/ \E p \in Callers : FreeSlot(p) /\ ApiDisconnect(p, ApiTarget)
  \/ \E p \in Callers : ConnectSettle(p)
  \/ \E p \in Callers : Proceed(p)
  \/ \E p \in Callers : QuerySettle(p)
  \/ \E p \in Callers : DisconnectSettle(p)
  \/ SetReachable(ApiTarget)

SpecDb == Init /\ [][NextDb]_vars

\* The server under the invocations that work on table rows, handled one
\* at a time in slot 1.
NextData ==
  \/ CallToolData(1)
  \/ ConnectSettle(1)
  \/ Proceed(1)
  \/ QuerySettle(1)
  \/ SetReachable("datamgmt")

SpecData == Init /\ [][NextData]_vars

\* The server under listings, handled one at a time in slot 1, while other
\* clients change the catalogs between them.
NextList ==
  \/ CallToolList(1)
  \/ ListResources(1)
  \/ ConnectSettle(1)
  \/ Proceed(1)
  \/ QuerySettle(1)
  \/ \E t \in Targets : CatalogChange(t)

SpecList == Init /\ [][NextList]_vars

\* The server under reads of definitions, handled one at a time in slot 1,
\* while other clients change the catalogs between them.
NextDef ==
  \/ ReadDefinition(1)
  \/ ConnectSettle(1)
  \/ Proceed(1)
  \/ QuerySettle(1)
  \/ \E t \in Targets : CatalogChange(t)

SpecDef == Init /\ [][NextDef]_vars

\* One connection manager under one caller, each call awaited before the
\* next is made.
NextSeq ==
  \/ ApiConnect(1, ApiTarget)
  \/ ApiExecuteQuery(1, ApiTarget)
  \/ ApiExecuteProcedure(1, ApiTarget)
  \/ ApiDisconnect(1, ApiTarget)
  \/ ConnectSettle(1)
  \/ Proceed(1)
  \/ QuerySettle(1)
  \/ DisconnectSettle(1)
  \/ SetReachable(ApiTarget)

SpecSeq == Init /\ [][NextSeq]_vars

----------------------------------------------------------------------------
(* Properties of the front-end (specification Spec)                        *)

Allowed == {sSelect, sInsert, sUpdate, sDelete, sExec, sExecute}

\* The first white-space-delimited token of a statement, lower-cased.
FirstKeyword(query) ==
  LET q == ToLowerCase(Trim(query))
      ws == {i \in DOMAIN q : q[i] \in WhiteSpace}
  IN  IF ws = {} THEN q
      ELSE SubSeq(q, 1, (CHOOSE i \in ws : \A j \in ws : i <= j) - 1)

IsFailure(outcome) ==
  /\ outcome.kind = "returned"
  /\ outcome.value.success = FALSE

IsExecuteQuery(req) ==
  /\ req.type = "tool"
  /\ req.name = "executeQuery"
  /\ req.hasArgs
  /\ "query" \in DOMAIN req.args

\* C1: executeQuery answers every statement whose first keyword is not
\* exactly SELECT, INSERT, UPDATE, DELETE, EXEC or EXECUTE with the failure
\* envelope, at once and without a request on either manager's handle.
C1_GateRejectsOtherKeywords ==
  \A p \in Callers :
    (/\ IsExecuteQuery(proc[p].req)
     /\ FirstKeyword(proc[p].req.args.query) \notin Allowed)
    => /\ proc[p].pc = "idle"
       /\ IsFailure(proc[p].outcome)
       /\ proc[p].issued = <<>>

\* C2: every front-end request that has ended (a tool call, a resource
\* read, a resource listing) has returned a result; none has thrown.
C2_NoRequestThrows ==
  \A p \in Callers :
    (proc[p].pc = "idle" /\ proc[p].req.type \in {"tool", "read", "list"})
    => proc[p].outcome.kind = "returned"

\* The arguments of a tool call break the inputSchema the tool declares.
ViolatesSchema(req) ==
  \/ ~req.hasArgs
  \/ \E k \in Required(req.name) : k \notin DOMAIN req.args
  \/ /\ "database" \in DOMAIN req.args
     /\ req.args.database \notin DatabaseEnum
  \/ /\ "objectType" \in DOMAIN req.args
     /\ req.args.objectType \notin ObjectTypeEnum

\* C3: a tool call whose arguments break the declared schema is answered
\* with the failure envelope, at once and without a request on either
\* manager's handle.
C3_InvalidArgumentsRejected ==
  \A p \in Callers :
    (/\ proc[p].req.type = "tool"
     /\ proc[p].req.name \in ToolNames
     /\ ViolatesSchema(proc[p].req))
    => /\ proc[p].pc = "idle"
       /\ IsFailure(proc[p].outcome)
       /\ proc[p].issued = <<>>

\* The URI the listing gives object o of target T.
ListedUri(T, o) ==
  CASE o.kind \in {"tables", "views"} ->
         TableResources(T, IF o.kind = "tables" THEN sTables ELSE sViews,
           <<[table_schema |-> o.schema, table_name |-> o.name]>>)[1].uri
    [] o.kind = "procedures" ->
         ProcedureResources(T,
           <<[routine_schema |-> o.schema, routine_name |-> o.name]>>)[1].uri
    [] o.kind = "triggers" ->
         TriggerResources(T,
           <<[trigger_name |-> o.name, table_name |-> <<>>,
              trigger_schema |-> o.schema]>>)[1].uri

\* C4: reading a URI the listing produced for target T sends requests to
\* T's manager only.
C4_ReadUsesListedTarget ==
  \A p \in Callers : \A T \in Targets : \A o \in catalog[T] :
    (proc[p].req.type = "read" /\ proc[p].req.uri = ListedUri(T, o))
    => \A i \in DOMAIN proc[p].issued : proc[p].issued[i].db = T

\* Call c asks the catalog for the object named N in schema S.
LooksUp(c, S, N) ==
  CASE c.stmt \in {"getTableSchema", "getTableData"} ->
         c.args.tableName = N /\ c.args.schema = S
    [] c.stmt = "getStoredProcedureDefinition" ->
         c.args.procedureName = N /\ c.args.schema = S
    [] c.stmt = "getViewDefinition" ->
         c.args.viewName = N /\ c.args.schema = S
    [] c.stmt = "getTriggerDefinition" ->
         c.args.triggerName \in {N, S \o sDot \o N}
    [] OTHER -> FALSE

\* C5: reading a URI the listing produced for the object named N in schema
\* S asks for that object in every request it sends.
C5_ReadUsesListedObject ==
  \A p \in Callers : \A T \in Targets : \A o \in catalog[T] :
    (proc[p].req.type = "read" /\ proc[p].req.uri = ListedUri(T, o))
    => \A i \in DOMAIN proc[p].issued :
         LooksUp(proc[p].issued[i].call, o.schema, o.name)

\* C10: once the server has stopped, every pool handle constructed while it
\* ran has been closed exactly once.
C10_HandlesReleasedAtShutdown ==
  ~running =>
    \A t \in Targets : \A h \in DOMAIN handles[t] : handles[t][h].closes = 1

----------------------------------------------------------------------------
(* Properties of a connection manager (specifications SpecDb, SpecSeq)     *)

\* A call that runs connect() starts in slot p in this step.
StartsConnect(p) ==
  /\ proc[p].pc = "idle"
  /\ proc'[p].pc \in {"connecting", "connected"}

Holds(t, st) == pool[t] # NoPool /\ handles[t][pool[t]].state = st

\* C6: when the manager is left with a handle whose connect failed, the
\* next call that runs connect() constructs a fresh handle and connects it.
C6_FreshHandleAfterFailure ==
  [][\A p \in Callers :
       (StartsConnect(p) /\ Holds(ApiTarget, "failed"))
       => /\ pool'[ApiTarget] # pool[ApiTarget]
          /\ handles'[ApiTarget][pool'[ApiTarget]].state = "connecting"]_vars

NeverClosed(t) == \A h \in DOMAIN handles[t] : handles[t][h].closes = 0

\* C7: a manager no call has used holds no handle and has constructed none;
\* once calls have used it, and as long as no disconnect() has closed
\* anything, it has constructed exactly one handle and called connect() on
\* it exactly once, however the calls interleave.
C7_LazyInitOnce ==
  \A t \in Targets :
    /\ t \notin everUsed => (pool[t] = NoPool /\ handles[t] = <<>>)
    /\ (t \in everUsed /\ NeverClosed(t))
       => /\ Len(handles[t]) = 1
          /\ handles[t][1].connects = 1
          /\ pool[t] = 1

\* Two first-use calls overlap: one awaits the handle's connect() while
\* another has already passed connect().
C7_Witness ==
  /\ NeverClosed(ApiTarget)
  /\ \E p, q \in Callers :
       /\ proc[p].pc = "connecting"
       /\ proc[q].pc \in {"connected", "querying"}

Closing(pp) == \E p \in Callers : pp[p].pc = "closing"

\* C8: while the manager holds a connected handle and no disconnect() runs,
\* no step replaces the handle, constructs another or connects again.
C8_ConnectIdempotent ==
  [][\A t \in Targets :
       (Holds(t, "connected") /\ ~Closing(proc) /\ ~Closing(proc'))
       => /\ pool'[t] = pool[t]
          /\ Len(handles'[t]) = Len(handles[t])
          /\ handles'[t][pool[t]].connects = handles[t][pool[t]].connects]_vars

\* A call found the connected handle in place: it is past connect() and
\* constructed nothing itself.
C8_Witness ==
  /\ Holds(ApiTarget, "connected")
  /\ ~Closing(proc)
  /\ \E p \in Callers : proc[p].pc = "connected" /\ proc[p].h = NoPool

IsDisconnect(req, t) ==
  req.type = "api" /\ req.api = "disconnect" /\ req.db = t

\* The caller calls disconnect() on manager t in this step.
CallsDisconnect(t) ==
  /\ proc[1].pc = "idle"
  /\ proc'[1] # proc[1]
  /\ IsDisconnect(proc'[1].req, t)

\* A disconnect() on manager t returns to the caller in this step.
DisconnectEnds(t) ==
  /\ proc'[1].pc = "idle"
  /\ proc'[1] # proc[1]
  /\ IsDisconnect(proc'[1].req, t)

\* C9: for one caller making its calls one after the other: a disconnect()
\* on a manager without a handle calls close() on nothing, returns at once
\* and leaves the handle absent; a disconnect() on a manager with a handle
\* calls close() on that handle; when a disconnect() has returned the handle
\* is absent and nothing was thrown; and no handle is ever closed twice.
C9_DisconnectReleasesOnce ==
  [][\A t \in Targets :
       /\ (CallsDisconnect(t) /\ pool[t] = NoPool)
          => /\ handles'[t] = handles[t]
             /\ DisconnectEnds(t)
       /\ (CallsDisconnect(t) /\ pool[t] # NoPool)
          => handles'[t][pool[t]].closes = handles[t][pool[t]].closes + 1
       /\ DisconnectEnds(t)
          => /\ pool'[t] = NoPool
             /\ proc'[1].outcome.kind = "returned"
       /\ \A h \in DOMAIN handles'[t] : handles'[t][h].closes <= 1]_vars

\* The manager connected twice and a disconnect() released each handle: the
\* last call was a disconnect() that returned, every handle was closed
\* once, and the manager holds none.
C9_Witness ==
  /\ pool[ApiTarget] = NoPool
  /\ proc[1].pc = "idle"
  /\ IsDisconnect(proc[1].req, ApiTarget)
  /\ proc[1].outcome.kind = "returned"
  /\ Len(handles[ApiTarget]) = 2
  /\ \A h \in DOMAIN handles[ApiTarget] : handles[ApiTarget][h].closes = 1

----------------------------------------------------------------------------
(* Properties of the statements (specification SpecData)                   *)

\* The request in slot p ends in this step, its last statement settled.
Settles(p) == proc[p].pc = "querying" /\ proc'[p].pc = "idle"

\* C11: an executeQuery call whose statement the database applied (the
\* rows of a table changed) returns the success envelope.
C11_AppliedStatementSucceeds ==
  [][\A p \in Callers :
       (Settles(p) /\ IsExecuteQuery(proc'[p].req) /\ table' # table)
       => /\ proc'[p].outcome.kind = "returned"
          /\ proc'[p].outcome.value.success]_vars

IsTool(req, name) == req.type = "tool" /\ req.name = name /\ req.hasArgs

\* The rows of rs whose Id is not the value bound to @Id.
RowsKept(rs, whereParameters) ==
  SelectSeq(rs, LAMBDA r : r.Id # ParamValue(whereParameters, "Id"))

\* C12: a deleteData call with the clause `Id = @Id` that succeeds has
\* removed from the table exactly the rows whose Id is the bound value, has
\* left the other table alone, and reports as affectedRows the number of
\* rows it removed (zero when no row matched).
C12_DeleteReportsRowsRemoved ==
  [][\A p \in Callers :
       (/\ Settles(p)
        /\ IsTool(proc'[p].req, "deleteData")
        /\ proc'[p].req.args.whereClause = sWhere
        /\ proc'[p].outcome.value.success)
       => LET t == DbFor(proc'[p].req.args.database)
              kept == RowsKept(table[t], proc'[p].req.args.whereParameters)
          IN  /\ table'[t] = kept
              /\ \A u \in Targets \ {t} : table'[u] = table[u]
              /\ proc'[p].outcome.value.affectedRows
                   = Len(table[t]) - Len(kept)]_vars

\* Some parameter name occurs both in the row values and in the WHERE
\* parameters of an updateData call.
Collides(req) ==
  /\ IsTool(req, "updateData")
  /\ "data" \in DOMAIN req.args
  /\ "whereParameters" \in DOMAIN req.args
  /\ \E i \in DOMAIN req.args.data :
       HasParam(req.args.whereParameters, req.args.data[i][1])

\* C13: an updateData call in which a parameter name occurs both in the row
\* values and in the WHERE parameters is answered with the failure
\* envelope, at once and without a request on either manager's handle.
C13_CollisionRejected ==
  \A p \in Callers :
    Collides(proc[p].req)
    => /\ proc[p].pc = "idle"
       /\ IsFailure(proc[p].outcome)
       /\ proc[p].issued = <<>>

IsCrud(req) ==
  /\ req.type = "tool"
  /\ req.name \in {"insertData", "updateData", "deleteData"}
  /\ req.hasArgs

\* Other values for the values of a call: each value v replaced by f[v].
ValueMaps == {[v \in 1..3 |-> v], [v \in 1..3 |-> v + 1], [v \in 1..3 |-> 1]}
Revalue(o, f) == [i \in DOMAIN o |-> <<o[i][1], f[o[i][2]]>>]
ReArgs(args, f) ==
  [k \in DOMAIN args |->
     IF k \in {"data", "whereParameters"} THEN Revalue(args[k], f)
     ELSE args[k]]

sWhereKeyword == <<"W","H","E","R","E"," ">>

----------------------------------------------------------------------------
(* Properties of the front-end, continued (specification Spec)             *)

\* The statement, trimmed and lower-cased, begins with an allowed keyword.
BeginsWithAllowed(query) ==
  \E k \in Allowed : StartsWith(ToLowerCase(Trim(query)), k)

\* The executeQuery call of the manager that request req asks for.
ExpectedCall(req) ==
  [db |-> req.args.database, api |-> "query", stmt |-> "raw",
   args |-> [sql |-> req.args.query,
             params |-> ArgOr(req.args, "parameters", <<>>)]]

Permitted(req) ==
  /\ IsExecuteQuery(req)
  /\ "database" \in DOMAIN req.args
  /\ req.args.database \in DatabaseEnum
  /\ BeginsWithAllowed(req.args.query)

OnTarget(req, T) ==
  /\ req.type = "tool"
  /\ req.name \in ToolNames
  /\ req.hasArgs
  /\ "database" \in DOMAIN req.args
  /\ req.args.database = T

----------------------------------------------------------------------------
(* Properties of the listings (specification SpecList)                     *)

\* The rows rs ascend by (k1, k2).
Sorted(rs, k1, k2) ==
  \A i, j \in DOMAIN rs : i < j => ~KeyLess(rs[j], rs[i], k1, k2)

\* The schema and name columns of the rows a listing tool returns.
SchemaKey(name) ==
  CASE name = "getStoredProcedures" -> "routine_schema"
    [] name = "getTriggers" -> "trigger_schema"
    [] OTHER -> "table_schema"
NameKey(name) ==
  CASE name = "getStoredProcedures" -> "routine_name"
    [] name = "getTriggers" -> "trigger_name"
    [] OTHER -> "table_name"

\* C17: the rows getTables, getViews, getStoredProcedures and getTriggers
\* return ascend by (schema, name).
C17_ListingsSorted ==
  \A p \in Callers :
    (/\ proc[p].req \in ListRequests
     /\ proc[p].pc = "idle"
     /\ proc[p].outcome.value.success)
    => Sorted(proc[p].outcome.value.data,
              SchemaKey(proc[p].req.name), NameKey(proc[p].req.name))

\* The URIs of the resources a listing returned.
UrisOf(resources) == {resources[i].uri : i \in DOMAIN resources}

----------------------------------------------------------------------------
(* Properties of the front-end, continued (specification Spec)             *)

\* Request req invokes the tool that executes a stored procedure, under the
\* name the documentation gives it or under the naming of the other tools.
IsProcedureCall(req) ==
  /\ req.type = "tool"
  /\ req.name \in {"execute_procedure", "executeProcedure"}
  /\ req.hasArgs
  /\ {"database", "procedureName"} \subseteq DOMAIN req.args

\* C19: the tool that executes a stored procedure is among the tools the
\* server lists, and a call of it with a target and a procedure name is
\* not answered with the unknown-tool failure.
C19_ExecuteProcedureExposed ==
  \A p \in Callers :
    (IsProcedureCall(proc[p].req) /\ proc[p].pc = "idle")
    => /\ proc[p].req.name \in AdvertisedTools
       /\ ~(/\ IsFailure(proc[p].outcome)
            /\ proc[p].outcome.value.error = eUnknownTool(proc[p].req.name))

\* The groups an object-type filter selects, and the catalog query of each.
GroupsFor(objectType) ==
  IF objectType = "all" THEN {"tables", "procedures", "triggers", "views"}
  ELSE {objectType}
QueryOf(g) ==
  CASE g = "tables" -> "getTables"
    [] g = "procedures" -> "getStoredProcedures"
    [] g = "triggers" -> "getTriggers"
    [] g = "views" -> "getViews"

\* C20: a getSchema call that succeeds with the filter tables, procedures,
\* triggers or views holds that one group and has sent that one catalog
\* query; with the filter all, or none, it holds the four groups; a call
\* with any other filter value is answered with the failure envelope, at
\* once and without a request on either manager's handle.
C20_SchemaMatchesFilter ==
  \A p \in Callers :
    (/\ IsTool(proc[p].req, "getSchema")
     /\ "database" \in DOMAIN proc[p].req.args
     /\ proc[p].pc = "idle")
    => LET pr == proc[p]
           objectType == ArgOr(pr.req.args, "objectType", "all")
           schema == pr.outcome.value.schema
       IN  IF objectType \in ObjectTypeEnum
           THEN pr.outcome.value.success
                => /\ {schema[i][1] : i \in DOMAIN schema}
                       = GroupsFor(objectType)
                   /\ {pr.issued[i].call.stmt : i \in DOMAIN pr.issued}
                       = {QueryOf(g) : g \in GroupsFor(objectType)}
                   /\ Len(pr.issued) = Cardinality(GroupsFor(objectType))
           ELSE IsFailure(pr.outcome) /\ pr.issued = <<>>

----------------------------------------------------------------------------
(* Error propagation (specification Spec)                                  *)

ErrorTexts ==
  {eTypeError, eNotAllowed, eUnknownResource(<<>>), eNotEstablished,
   eConnect, eNotOpen, eRequest}

\* Request req is one whose handler makes several manager calls.
MultiCall(req) ==
  /\ req.type \in {"tool", "read", "list"}
  /\ ~Plan(req).reject
  /\ Len(Plan(req).calls) >= 2

\* The outcome carries an error message and nothing else.
BareFailure(o) ==
  \/ /\ o.kind = "thrown"
     /\ DOMAIN o = {"kind", "error"}
     /\ o.error \in ErrorTexts
  \/ /\ o.kind = "returned"
     /\ DOMAIN o.value = {"success", "error"}
     /\ o.value.success = FALSE
     /\ o.value.error \in ErrorTexts

\* The handler in slot p ends in this step.
Ends(p) == proc[p].pc # "idle" /\ proc'[p].pc = "idle"

\* C21: a request whose handler makes several manager calls (getSchema
\* over all groups, the read of a table resource, the resource listing)
\* ends either with the result built from the results of all its calls, or
\* with an error message and no data of the calls that succeeded.
C21_NoPartialEnvelopes ==
  [][\A p \in Callers :
       (Ends(p) /\ MultiCall(proc[p].req))
       => LET req == proc[p].req
              cs == Plan(req).calls
              o == proc'[p].outcome
          IN  IF Len(proc'[p].issued) = Len(cs) /\ proc[p].pc = "querying"
                 /\ Len(proc[p].results) = Len(cs) - 1
                 /\ o.kind = "returned"
                 /\ ("success" \in DOMAIN o.value => o.value.success)
              THEN o = Success(req, [i \in DOMAIN cs |->
                                       DbEval(cs[i].db, cs[i])])
              ELSE BareFailure(o)]_vars

\* A getSchema call over all groups has ended in failure after its first
\* catalog query had succeeded.
C21_Witness ==
  /\ proc[1].pc = "idle"
  /\ IsTool(proc[1].req, "getSchema")
  /\ Len(proc[1].issued) >= 2
  /\ IsFailure(proc[1].outcome)

\* The error of the manager call slot p is waiting on, should it fail.
CallError(p) ==
  IF proc[p].pc = "connecting" THEN eConnect
  ELSE IF proc[p].sent THEN eRequest ELSE eNotOpen

----------------------------------------------------------------------------
(* Properties of the data tools, continued (specification SpecData)        *)

\* C23: an executeQuery call that succeeds returns no more rows than the
\* row limit it was given, or than the configured maximum when it was
\* given none, and reports as row count the number of rows it returns.
C23_RowLimitHonoured ==
  \A p \in Callers :
    (/\ IsExecuteQuery(proc[p].req)
     /\ proc[p].pc = "idle"
     /\ proc[p].outcome.value.success)
    => LET o == proc[p].outcome.value
       IN  /\ Len(o.data) <= ArgOr(proc[p].req.args, "limit", maxRows)
           /\ o.rowCount = Len(o.data)

\* The statement text is one INSERT INTO statement with a column list and a
\* VALUES list.
IsInsertText(sql) ==
  LET tok == Split(Trim(sql), " ")
  IN  /\ Len(tok) >= 2
      /\ tok[1] = <<"I","N","S","E","R","T">>
      /\ tok[2] = <<"I","N","T","O">>
      /\ Len(Split(sql, "(")) = 3
      /\ Len(Split(sql, ")")) = 3
      /\ Includes(Split(sql, ")")[2], <<"V","A","L","U","E","S">>)
      /\ ~Includes(sql, <<";">>)

\* Request req invokes insertData with a row.
IsInsert(req) ==
  /\ IsTool(req, "insertData")
  /\ "data" \in DOMAIN req.args
  /\ req.args.data # <<>>

\* C24: insertData sends one INSERT statement whose column list is the
\* keys of the row, whose VALUES list is '@' and the key for each of
\* them, and whose bound parameters are the row's keys with the row's
\* values, all in the order of the row; when it succeeds it reports one
\* affected row.
C24_InsertStatement ==
  \A p \in Callers :
    IsInsert(proc[p].req)
    => LET pr == proc[p]
           data == pr.req.args.data
           keys == [i \in DOMAIN data |-> KeyChars[data[i][1]]]
       IN  /\ Len(pr.issued) <= 1
           /\ \A i \in DOMAIN pr.issued :
                LET a == pr.issued[i].call.args
                IN  /\ IsInsertText(a.sql)
                    /\ ListInParens(a.sql, 1) = keys
                    /\ ListInParens(a.sql, 2)
                         = [j \in DOMAIN keys |-> <<"@">> \o keys[j]]
                    /\ a.params = data
           /\ (pr.pc = "idle" /\ pr.outcome.value.success)
              => /\ Len(pr.issued) = 1
                 /\ pr.outcome.value.affectedRows = 1

\* An insert of a row whose keys are not in the order of the table's
\* columns has succeeded.
C24_Witness ==
  /\ IsInsert(proc[1].req)
  /\ proc[1].req.args.data = RowNameFirst
  /\ proc[1].pc = "idle"
  /\ proc[1].outcome.value.success

\* Request req is a query for the rows of dbo.F whose key is the value of
\* its parameter Id.
IsKeyQuery(req) ==
  /\ IsExecuteQuery(req)
  /\ req.args.query = qSelectWhere
  /\ "parameters" \in DOMAIN req.args

\* The rows of rs whose key is k.
WithKey(rs, k) == SelectSeq(rs, LAMBDA r : r.Id = k)

----------------------------------------------------------------------------
(* Definition lookups (specification SpecDef)                              *)

\* The name call c hands to OBJECT_ID.
LookupName(c) ==
  CASE c.stmt = "getStoredProcedureDefinition" ->
         c.args.schema \o sDot \o c.args.procedureName
    [] c.stmt = "getViewDefinition" ->
         c.args.schema \o sDot \o c.args.viewName
    [] c.stmt = "getTriggerDefinition" -> c.args.triggerName

\* The objects of target t that go by that name: schema.name, or the name
\* alone for an object of the default schema.
Named(t, qualified) ==
  {o \in catalog[t] :
     \/ qualified = o.schema \o sDot \o o.name
     \/ o.schema = sDbo /\ qualified = o.name}

IsDefinitionRead(req) ==
  /\ req.type = "read"
  /\ ResourceKind(req.uri) \in {"procedures", "triggers", "views"}

\* C26: the lookup of a view's, procedure's or trigger's definition sends a
\* statement the database executes whether or not the object exists;
\* when it returns, it returns the empty string for an object that is
\* absent or has no definition text, and the text of the definition as the
\* catalog holds it otherwise.
C26_DefinitionOrEmpty ==
  [][\A p \in Callers :
       IsDefinitionRead(proc'[p].req)
       => LET after == proc'[p]
          IN  /\ \A i \in DOMAIN after.issued :
                   Executes(after.issued[i].db, after.issued[i].call)
              /\ (Ends(p) /\ after.outcome.kind = "returned")
                 => LET c == after.issued[1].call
                        found == Named(after.issued[1].db, LookupName(c))
                        text == after.outcome.value.text
                    IN  IF found = {} \/ \A o \in found : o.def = SqlNull
                        THEN text = <<>>
                        ELSE \E o \in found : text = o.def]_vars

\* The read of a trigger that another client has dropped has returned the
\* empty string.
C26_Witness ==
  /\ IsDefinitionRead(proc[1].req)
  /\ proc[1].pc = "idle"
  /\ proc[1].outcome.kind = "returned"
  /\ proc[1].issued[1].call.args = [triggerName |-> <<"x",".","A">>]
  /\ DataMgmtExtra \notin catalog["datamgmt"]
  /\ proc[1].outcome.value.text = <<>>

\* The read of a trigger that exists has returned its text.
C26_WitnessText ==
  /\ IsDefinitionRead(proc[1].req)
  /\ proc[1].pc = "idle"
  /\ proc[1].outcome.kind = "returned"
  /\ proc[1].outcome.value.text = <<"t","g">>

----------------------------------------------------------------------------
(* Properties of one manager under concurrent callers, continued           *)
(* (specification SpecDb)                                                  *)

\* Slot p takes a request from the manager's handle in this step.
TakesRequest(p) == proc[p].pc = "connected" /\ proc'[p].pc = "querying"

\* C27: whenever executeQuery or executeProcedure takes a request from the
\* manager's handle, the connect() of that handle has resolved: it is not
\* still in progress in another call and has not failed.
C27_RequestOnlyOnConnectedPool ==
  [][\A p \in Callers :
       TakesRequest(p)
       => handles[proc[p].req.db][proc'[p].h].state = "connected"]_vars

\* C28: under concurrent callers of one manager, no handle has close()
\* called on it twice, no call takes a request from a handle on which
\* close() has been called, and a handle the manager drops has had close()
\* called on it.
C28_ConcurrentDisconnect ==
  [][\A t \in Targets :
       /\ \A h \in DOMAIN handles'[t] : handles'[t][h].closes <= 1
       /\ \A p \in Callers :
            (TakesRequest(p) /\ proc[p].req.db = t)
            => handles[t][proc'[p].h].closes = 0
       /\ (pool[t] # NoPool /\ pool'[t] = NoPool)
          => handles[t][pool[t]].closes >= 1]_vars

\* The same, for close() called twice alone.
C28_ClosedAtMostOnce ==
  \A t \in Targets : \A h \in DOMAIN handles[t] : handles[t][h].closes <= 1

\* The same, for a handle dropped without close() alone.
C28_NoHandleDroppedOpen ==
  [][\A t \in Targets :
       (pool[t] # NoPool /\ pool'[t] = NoPool)
       => handles[t][pool[t]].closes >= 1]_vars

----------------------------------------------------------------------------
(* Properties of one manager under one caller, continued                   *)
(* (specification SpecSeq)                                                 *)

\* The call in slot 1 is an executeQuery or an executeProcedure.
IsExec(req) == req.type = "api" /\ req.api \in {"query", "execute"}

\* The last call was a disconnect() and it has returned.
Disconnected(t) ==
  /\ proc[1].pc = "idle"
  /\ IsDisconnect(proc[1].req, t)
  /\ proc[1].outcome.kind = "returned"

\* C29: for one caller making its calls one after the other: the
\* executeQuery or executeProcedure that follows a disconnect() which has
\* returned constructs a new handle and awaits its connect(); once that
\* has resolved it takes its request from that handle, which is connected
\* and has not been closed; and no call ends with 'Database connection not
\* established'.
C29_ReconnectAfterDisconnect ==
  [][\A t \in Targets :
       /\ (Disconnected(t) /\ IsExec(proc'[1].req))
          => /\ pool'[t] = Len(handles[t]) + 1
             /\ handles'[t] = Append(handles[t], NewHandle)
             /\ proc'[1].pc = "connecting"
             /\ proc'[1].h = pool'[t]
       /\ (TakesRequest(1) /\ proc[1].req.db = t /\ proc[1].h # NoPool)
          => /\ proc'[1].h = proc[1].h
             /\ pool[t] = proc[1].h
             /\ handles[t][proc[1].h].state = "connected"
             /\ handles[t][proc[1].h].closes = 0
       /\ (IsExec(proc'[1].req) /\ proc'[1].outcome.kind = "thrown")
          => proc'[1].outcome.error # eNotEstablished]_vars

\* After a disconnect() closed the first handle, an executeQuery has
\* returned its rows from a second one.
C29_Witness ==
  /\ proc[1].pc = "idle"
  /\ IsExec(proc[1].req)
  /\ proc[1].outcome.kind = "returned"
  /\ Len(handles[ApiTarget]) = 2
  /\ handles[ApiTarget][1].closes = 1
  /\ handles[ApiTarget][2] = [state |-> "connected", connects |-> 1,
                              closes |-> 0]
  /\ pool[ApiTarget] = 2

----------------------------------------------------------------------------
(* Properties of the front-end, continued (specification Spec)             *)

====
